---- MODULE Spec2Model ----
(***************************************************************************)
(* A model of pyls (src/pyls.py): the traversal loop of ls_lines, the      *)
(* entry lister, the sort key, the short-format column packer and the      *)
(* long-format rows.                                                       *)
(*                                                                         *)
(* Strings are sequences of code points, so that len(), ljust(),           *)
(* startswith(), "\n".join() and the comparison of sort keys are computed  *)
(* as Python computes them.  A pathlib.Path is the sequence of its         *)
(* components; <<>> is Path("."), the working directory.                   *)
(***************************************************************************)
EXTENDS Integers, Sequences, FiniteSets, TLC

VARIABLES
    paths,              \* CONFIG.paths: the requested roots, as given
    list_format,        \* CONFIG.list_format (-l)
    show_all,           \* CONFIG.show_all (-a)
    sort_by_size,       \* CONFIG.sort_by_size (-S)
    recursive,          \* CONFIG.recursive (-R)
    use_column_layout,  \* CONFIG.use_column_layout (set by main only)
    columns,            \* shutil.get_terminal_size().columns
    lc_collate,         \* the locale set by locale.setlocale(LC_ALL, '')
    st_size,            \* lstat().st_size of every node of the file system
    fault,              \* the permission fault of the file system, if any
    is_dir_raises,      \* Path.is_dir() propagates a permission error
    caller,             \* who iterates ls_lines: "main", "ls_string", "packer"
    pc,                 \* position of the ls_lines generator and of its caller
    stack,              \* ls_lines: the stack of pending directories
    is_first_dir,       \* ls_lines: no header was emitted yet
    out,                \* the lines yielded by ls_lines so far
    visits,             \* history: one record per directory popped
    passes,             \* history: the number of passes of the while loop
    exc,                \* the exception that left ls_lines, "" if none
    exit_code,          \* main: the argument of sys.exit, -1 before it
    result,             \* ls_string: the returned string
    path_strings,       \* input of the column packer (SpecCols)
    layout,             \* result of _get_optimal_column_layout (SpecCols)
    rows,               \* lines of _lines_in_short_format_many_per_line (SpecCols)
    entries,            \* the names of a directory as iterdir() hands them out (SpecNames)
    listing             \* the names listed for that directory, in order (SpecNames)

cfgvars == <<paths, list_format, show_all, sort_by_size, recursive,
             use_column_layout, columns, lc_collate, st_size, fault,
             is_dir_raises, caller>>
runvars == <<pc, stack, is_first_dir, out, visits, passes, exc, exit_code, result>>
colvars == <<path_strings, layout, rows>>
dirvars == <<entries, listing>>
vars == <<cfgvars, runvars, colvars, dirvars>>

----------------------------------------------------------------------------
(* Bounds of the model *)

\* the longest list of requested roots
MaxRoots == 2
\* the size of the varied node ranges over 1..MaxSize
MaxSize == 2
\* the column packer is given at most MaxNames names ...
MaxNames == 4
\* ... of at most MaxNameLen characters ...
MaxNameLen == 3
\* ... on terminals of at most MaxColumns columns
MaxColumns == 10

----------------------------------------------------------------------------
(* Strings *)

\* the code points the program itself writes or tests
Chr == [nl |-> 10, sp |-> 32, dot |-> 46, slash |-> 47, colon |-> 58,
        gt |-> 62, minus |-> 45]

RECURSIVE Spaces(_)
Spaces(n) == IF n <= 0 THEN <<>> ELSE <<Chr.sp>> \o Spaces(n - 1)

\* str.ljust(w) and str.rjust(w)
Ljust(s, w) == s \o Spaces(w - Len(s))
Rjust(s, w) == Spaces(w - Len(s)) \o s

\* sep.join(strs)
RECURSIVE Join(_, _)
Join(sep, strs) ==
    IF strs = <<>> THEN <<>>
    ELSE IF Len(strs) = 1 THEN strs[1]
    ELSE strs[1] \o sep \o Join(sep, Tail(strs))

\* "".join(strs)
RECURSIVE Concat(_)
Concat(strs) == IF strs = <<>> THEN <<>> ELSE strs[1] \o Concat(Tail(strs))

\* s.startswith(".")
StartsWithDot(s) == Len(s) >= 1 /\ s[1] = Chr.dot

\* str(n) for an integer n >= 0
RECURSIVE Digits(_)
Digits(n) == IF n < 10 THEN <<48 + n>> ELSE Digits(n \div 10) \o <<48 + (n % 10)>>

\* the comparison of two strings (and of two strxfrm results): lexicographic
RECURSIVE SeqLess(_, _)
SeqLess(a, b) ==
    IF b = <<>> THEN FALSE
    ELSE IF a = <<>> THEN TRUE
    ELSE IF a[1] # b[1] THEN a[1] < b[1]
    ELSE SeqLess(Tail(a), Tail(b))

Max(a, b) == IF a >= b THEN a ELSE b

RECURSIVE MaxOf(_)
MaxOf(ns) == IF ns = <<>> THEN 0 ELSE Max(ns[1], MaxOf(Tail(ns)))

RECURSIVE SumOf(_)
SumOf(ns) == IF ns = <<>> THEN 0 ELSE ns[1] + SumOf(Tail(ns))

Reverse(s) == [i \in 1..Len(s) |-> s[Len(s) + 1 - i]]

Front(s) == SubSeq(s, 1, Len(s) - 1)

Last(s) == s[Len(s)]

----------------------------------------------------------------------------
(* The file system the program runs on.  It holds what the branches of the *)
(* code distinguish: plain and dot-prefixed names, upper and lower case,   *)
(* nested and empty directories, symbolic links to directories (one of     *)
(* them closing a cycle), a regular file, and roots of each kind.          *)

Nm == [d |-> <<100>>, r |-> <<46, 114>>, k |-> <<107>>, f |-> <<102>>,
       a |-> <<97>>, B |-> <<66>>, h |-> <<46, 104>>, m |-> <<109>>,
       L |-> <<76>>, e |-> <<101>>, x |-> <<120>>, y |-> <<121>>,
       n |-> <<110>>, foo |-> <<102, 111, 111>>, bar |-> <<98, 97, 114>>,
       atxt |-> <<97, 46, 116, 120, 116>>,
       btxt |-> <<98, 46, 116, 120, 116>>,
       ctxt |-> <<99, 46, 116, 120, 116>>,
       up |-> <<46, 46>>]

Cwd == <<>>

Dirs == {Cwd, <<Nm.d>>, <<Nm.d, Nm.h>>, <<Nm.d, Nm.h, Nm.x>>, <<Nm.d, Nm.m>>,
         <<Nm.d, Nm.e>>, <<Nm.r>>, <<Nm.r, Nm.y>>, <<Nm.foo>>, <<Nm.bar>>}

Files == {<<Nm.f>>, <<Nm.d, Nm.a>>, <<Nm.d, Nm.B>>,
          <<Nm.d, Nm.m, Nm.atxt>>, <<Nm.d, Nm.m, Nm.btxt>>, <<Nm.d, Nm.m, Nm.ctxt>>}

\* the symbolic links and the node each points to: k -> d, d/L -> d
LinkTarget == (<<Nm.k>> :> <<Nm.d>>) @@ (<<Nm.d, Nm.L>> :> <<Nm.d>>)

Links == DOMAIN LinkTarget

Nodes == Dirs \cup Files \cup Links

\* the names held by a directory, in the order the directory stores them
OnDisk(dir) ==
    CASE dir = Cwd -> <<Nm.k, Nm.foo, Nm.d, Nm.f, Nm.bar, Nm.r>>
      [] dir = <<Nm.d>> -> <<Nm.m, Nm.a, Nm.h, Nm.L, Nm.e, Nm.B>>
      [] dir = <<Nm.d, Nm.h>> -> <<Nm.x>>
      [] dir = <<Nm.d, Nm.m>> -> <<Nm.ctxt, Nm.atxt, Nm.btxt>>
      [] dir = <<Nm.r>> -> <<Nm.y>>
      [] OTHER -> <<>>

\* the paths that may be requested on the command line: directories, a
\* symbolic link to one, a regular file, a name that does not exist
RootCands == {<<Nm.d>>, <<Nm.r>>, <<Nm.k>>, <<Nm.f>>, <<Nm.n>>}

\* further command lines: the two empty directories of test_data.py's
\* two_empty_dirs, and a directory given after one of its subdirectories
ExtraRootLists == {<<(<<Nm.foo>>), (<<Nm.bar>>)>>, <<(<<Nm.d, Nm.m>>), (<<Nm.d>>)>>}

\* the sizes: that of d/.h varies, a.txt, b.txt, c.txt are those of
\* test_data.py's size_order_different_from_alphabetical
SizeTable(sh) ==
    [n \in Nodes |->
        CASE n = <<Nm.d, Nm.h>> -> sh
          [] n = <<Nm.d, Nm.m, Nm.atxt>> -> 2
          [] n = <<Nm.d, Nm.m, Nm.btxt>> -> 3
          [] n = <<Nm.d, Nm.m, Nm.ctxt>> -> 1
          [] n \in {Cwd, <<Nm.d>>, <<Nm.d, Nm.a>>, <<Nm.d, Nm.m>>} -> 2
          [] OTHER -> 1]

\* the faults: none, a directory that cannot be read (no r permission), a
\* directory that cannot be searched (no x permission: its names can be
\* listed, the metadata of its entries cannot be read)
Faults == {[kind |-> "none", dir |-> Cwd],
           [kind |-> "noread", dir |-> <<Nm.d, Nm.m>>],
           [kind |-> "nosearch", dir |-> <<Nm.d>>]}

----------------------------------------------------------------------------
(* pathlib.PurePath *)

\* str(p)
Str(p) == IF p = <<>> THEN <<Chr.dot>> ELSE Join(<<Chr.slash>>, p)

\* p.name
Name(p) == IF p = <<>> THEN <<>> ELSE Last(p)

\* p.parent: lexical, ".." components are kept
Parent(p) == IF p = <<>> THEN <<>> ELSE Front(p)

----------------------------------------------------------------------------
(* The operating system: path resolution, lstat, stat, listdir *)

\* the resolution of the components rest from directory cur; the last
\* component is followed if it is a symbolic link only when follow is set
RECURSIVE Walk(_, _, _)
Walk(cur, rest, follow) ==
    IF rest = <<>> THEN [err |-> "", node |-> cur]
    ELSE IF cur \notin Dirs THEN [err |-> "ENOTDIR", node |-> cur]
    ELSE IF fault.kind = "nosearch" /\ fault.dir = cur
         THEN [err |-> "EACCES", node |-> cur]
    ELSE LET c == rest[1]
             nxt == IF c = Nm.up THEN Parent(cur) ELSE Append(cur, c)
         IN IF nxt \notin Nodes THEN [err |-> "ENOENT", node |-> cur]
            ELSE IF nxt \in Links /\ (follow \/ Len(rest) > 1)
                 THEN Walk(LinkTarget[nxt], Tail(rest), follow)
            ELSE Walk(nxt, Tail(rest), follow)

\* os.lstat(p) and os.stat(p): the node reached, or the errno
Lstat(p) == Walk(Cwd, p, FALSE)
Stat(p) == Walk(Cwd, p, TRUE)

\* the OSError subclass Python raises for an errno
OSErrorOf(err) ==
    CASE err = "ENOENT" -> "FileNotFoundError"
      [] err = "ENOTDIR" -> "NotADirectoryError"
      [] err = "EACCES" -> "PermissionError"
      [] OTHER -> ""

\* the orders in which a directory may hand out its names (the same to
\* every reader of an unchanged directory)
ScanOrders == {"stored", "reversed"}

\* a faulty iterdir: an error is swallowed and no child is reported
IterDirSwallowing(p, scan) ==
    LET Children(names) == [i \in 1..Len(names) |-> Append(p, names[i])] \o <<>>
        Listed(s) ==
            IF s.err # "" \/ s.node \notin Dirs
               \/ (fault.kind = "noread" /\ fault.dir = s.node)
            THEN [exc |-> "", children |-> <<>>]
            ELSE [exc |-> "",
                  children |-> Children(IF scan = "stored" THEN OnDisk(s.node)
                                        ELSE Reverse(OnDisk(s.node)))]
    IN Listed(Stat(p))

\* p.iterdir(): the children of p as paths below p, or the exception
IterDir(p, scan) ==
    LET Children(names) == [i \in 1..Len(names) |-> Append(p, names[i])] \o <<>>
        Listed(s) ==
            IF s.err # "" THEN [exc |-> OSErrorOf(s.err), children |-> <<>>]
            ELSE IF s.node \notin Dirs
                 THEN [exc |-> "NotADirectoryError", children |-> <<>>]
            ELSE IF fault.kind = "noread" /\ fault.dir = s.node
                 THEN [exc |-> "PermissionError", children |-> <<>>]
            ELSE [exc |-> "",
                  children |-> Children(IF scan = "stored" THEN OnDisk(s.node)
                                        ELSE Reverse(OnDisk(s.node)))]
    IN Listed(Stat(p))

\* p.lstat().st_size
StSize(p) == st_size[Lstat(p).node]

----------------------------------------------------------------------------
(* locale.strxfrm and the sort key *)

\* the locales the program may run under: "C" compares code points; "en_US"
\* is the collation the module's header comment describes (["a", ".b", "c"]):
\* letters and digits compare first, case and punctuation only break ties
Locales == {"C", "en_US"}

IsAlnum(c) == c \in (48..57) \cup (65..90) \cup (97..122)

Lower(c) == IF c \in 65..90 THEN c + 32 ELSE c

RECURSIVE Primary(_)
Primary(s) ==
    IF s = <<>> THEN <<>>
    ELSE (IF IsAlnum(s[1]) THEN <<Lower(s[1])>> ELSE <<>>) \o Primary(Tail(s))

\* locale.strxfrm(s): a string whose comparison is the locale's collation
StrXfrm(s) == IF lc_collate = "C" THEN s ELSE Primary(s) \o <<0>> \o s

\* a faulty key: the size is not negated, the smallest entry comes first
SortKeySmallestFirst(p) ==
    [size |-> IF sort_by_size THEN StSize(p) ELSE 0, name |-> StrXfrm(Str(p))]

\* _sort_key(path): the pair (-size, name key) under sort_by_size, the name
\* key alone otherwise (size is then 0 for every path)
SortKey(p) ==
    [size |-> IF sort_by_size THEN 0 - StSize(p) ELSE 0,
     name |-> StrXfrm(Str(p))]

\* Python's < on two sort keys
KeyLess(a, b) == a.size < b.size \/ (a.size = b.size /\ SeqLess(a.name, b.name))

\* the insertion of the keyed item x into the sorted list s, after every
\* item that does not have to follow it: the sort is stable
RECURSIVE InsertSorted(_, _, _)
InsertSorted(x, s, rev) ==
    IF s = <<>> THEN <<x>>
    ELSE LET y == Last(s)
             before == IF rev THEN KeyLess(y.key, x.key) ELSE KeyLess(x.key, y.key)
         IN IF before THEN Append(InsertSorted(x, Front(s), rev), y)
            ELSE Append(s, x)

RECURSIVE SortKeyed(_, _)
SortKeyed(keyed, rev) ==
    IF keyed = <<>> THEN <<>>
    ELSE InsertSorted(Last(keyed), SortKeyed(Front(keyed), rev), rev)

\* a faulty sort: reverse=True is ignored
SortedIgnoringReverse(seq, rev) ==
    LET Keyed == [i \in 1..Len(seq) |-> [key |-> SortKey(seq[i]), path |-> seq[i]]] \o <<>>
        Paths(sorted) == [i \in 1..Len(sorted) |-> sorted[i].path] \o <<>>
    IN Paths(SortKeyed(Keyed, FALSE))

\* sorted(seq, key=_sort_key, reverse=rev): the key of every path is computed
\* once, the sort is stable in both directions
Sorted(seq, rev) ==
    LET Keyed == [i \in 1..Len(seq) |-> [key |-> SortKey(seq[i]), path |-> seq[i]]] \o <<>>
        Paths(sorted) == [i \in 1..Len(sorted) |-> sorted[i].path] \o <<>>
    IN Paths(SortKeyed(Keyed, rev))

\* the exception of computing _sort_key over seq: the lstat of the first path
\* that fails, "" if none does (only sort_by_size reads metadata)
RECURSIVE SortKeyExc(_)
SortKeyExc(seq) ==
    LET Checked(s) == IF s.err # "" THEN OSErrorOf(s.err) ELSE SortKeyExc(Tail(seq))
    IN IF ~sort_by_size \/ seq = <<>> THEN "" ELSE Checked(Lstat(seq[1]))

----------------------------------------------------------------------------
(* The entry lister *)

\* a faulty filter: show_all is ignored
IsHiddenPathAlways(p) == StartsWithDot(Name(p))

\* _is_hidden_path(p)
IsHiddenPath(p) == ~show_all /\ StartsWithDot(Name(p))

NotHiddenPath(p) == ~IsHiddenPath(p)

\* _printable_path_name(base_path, p)
PrintablePathName(base_path, p) ==
    IF p = base_path THEN <<Chr.dot>>
    ELSE IF p = Parent(base_path) THEN <<Chr.dot, Chr.dot>>
    ELSE Name(p)

\* list(_iter_single_dir_children(path)): the paths listed for path, in
\* order, or the exception
IterSingleDirChildren(path, scan) ==
    LET pseudo == <<path, Append(path, Nm.up)>>
        first == IF show_all /\ ~sort_by_size THEN pseudo ELSE <<>>
        Yielded(children, keyexc) ==
            IF keyexc # "" THEN [exc |-> keyexc, paths |-> <<>>]
            ELSE [exc |-> "",
                  paths |-> first \o SelectSeq(Sorted(children, FALSE), NotHiddenPath)]
        WithPseudo(children) == Yielded(children, SortKeyExc(children))
        Listed(it) ==
            IF it.exc # "" THEN [exc |-> it.exc, paths |-> <<>>]
            ELSE WithPseudo(IF show_all /\ sort_by_size THEN it.children \o pseudo
                            ELSE it.children)
    IN Listed(IterDir(path, scan))

----------------------------------------------------------------------------
(* The short format: the column packer *)

\* the slot every candidate column needs at least (terminal_size.columns // 3)
MinColumnWidth == 3

\* the width shutil.get_terminal_size() reports when the traversal runs
TerminalColumns == 80

\* a fresh ColumnInfo(num_cols=i, col_array=[0] * i)
ColumnInfo(i) ==
    [num_cols |-> i, col_array |-> [j \in 1..i |-> 0], line_len |-> 0,
     is_valid |-> TRUE]

\* the body of the inner loop of _get_optimal_column_layout for the name at
\* (0-based) index p_idx and the layout c of col == c.num_cols columns
LayoutStep(c, p_idx, names, width) ==
    LET real_length == Len(names[p_idx + 1]) + 2
        col == c.num_cols
        idx == p_idx \div ((Len(names) + col - 1) \div col)
    IN IF ~c.is_valid THEN c
       ELSE IF real_length > c.col_array[idx + 1]
            THEN LET ll == c.line_len + (real_length - c.col_array[idx + 1])
                 IN [c EXCEPT !.line_len = ll,
                              !.col_array[idx + 1] = real_length,
                              !.is_valid = (ll < width)]
       ELSE c

\* layout c after the names of index 0..n-1 have been walked
RECURSIVE LayoutAfter(_, _, _, _)
LayoutAfter(c, n, names, width) ==
    IF n = 0 THEN c
    ELSE LayoutStep(LayoutAfter(c, n - 1, names, width), n - 1, names, width)

\* range(1, max_possible_cols): the candidate column counts
CandidateCols(width) == 1..(Max(1, width \div MinColumnWidth) - 1)

\* _get_optimal_column_layout(path_strings, terminal_size): the ColumnInfo
\* chosen, or the IndexError of col_layouts[-1] on an empty list
GetOptimalColumnLayout(names, width) ==
    LET cands == CandidateCols(width)
        Chosen(col_layouts, valid) ==
            IF valid = {} THEN [exc |-> "", info |-> col_layouts[Len(col_layouts)]]
            ELSE [exc |-> "",
                  info |-> col_layouts[CHOOSE i \in valid : \A j \in valid : j <= i]]
        Searched(col_layouts) ==
            Chosen(col_layouts, {i \in cands : col_layouts[i].is_valid})
    IN IF cands = {} THEN [exc |-> "IndexError", info |-> ColumnInfo(0)]
       ELSE Searched([i \in cands |->
                         LayoutAfter(ColumnInfo(i), Len(names), names, width)] \o <<>>)

\* the names of one output row: the loop body of
\* _lines_in_short_format_many_per_line from (0-based) file_index on
RECURSIVE RowNames(_, _, _, _, _)
RowNames(names, info, num_rows, col_idx, file_index) ==
    LET cell == Ljust(names[file_index + 1], info.col_array[col_idx + 1])
    IN IF file_index + num_rows >= Len(names) THEN <<cell>>
       ELSE <<cell>> \o RowNames(names, info, num_rows, col_idx + 1,
                                 file_index + num_rows)

\* the rows _lines_in_short_format_many_per_line yields for a layout
RowsOfLayout(names, info) ==
    LET num_files == Len(names)
        num_rows == (num_files \div info.num_cols)
                    + (IF num_files % info.num_cols # 0 THEN 1 ELSE 0)
    IN [r \in 1..num_rows |-> Concat(RowNames(names, info, num_rows, 0, r - 1))]

\* list(_lines_in_short_format_many_per_line(path_strings))
LinesInShortFormatManyPerLine(names, width) ==
    LET Rendered(lay) ==
            IF lay.exc # "" THEN [exc |-> lay.exc, lines |-> <<>>]
            ELSE [exc |-> "", lines |-> RowsOfLayout(names, lay.info)]
    IN Rendered(GetOptimalColumnLayout(names, width))

\* list(_lines_of_single_dir_content_in_short_format(base_path, paths))
LinesInShortFormat(base_path, ps) ==
    LET Lines(names) ==
            IF ~use_column_layout THEN [exc |-> "", lines |-> names]
            ELSE LinesInShortFormatManyPerLine(names, columns)
    IN Lines([i \in 1..Len(ps) |-> PrintablePathName(base_path, ps[i])] \o <<>>)

----------------------------------------------------------------------------
(* The long format *)

\* stat.filemode(lstat.st_mode): the type character and the permissions
FileMode(node) ==
    IF node \in Links THEN <<108, 114, 119, 120, 114, 119, 120, 114, 119, 120>>
    ELSE IF node \in Dirs THEN <<100, 114, 119, 120, 114, 45, 120, 114, 45, 120>>
    ELSE <<45, 114, 119, 45, 114, 45, 45, 114, 45, 45>>

\* lstat[stat.ST_NLINK]: a directory counts itself, its "." and its subdirectories
StNlink(node) ==
    IF node \in Dirs
    THEN 2 + Cardinality({n \in Dirs : Len(n) = Len(node) + 1 /\ Front(n) = node})
    ELSE 1

\* lstat.st_uid and lstat.st_gid: files belong to user 1, the rest to user 2;
\* everything belongs to group 2
StUid(node) == IF node \in Files THEN 1 ELSE 2
StGid(node) == 2

\* pwd.getpwuid(uid).pw_name and grp.getgrgid(gid).gr_name
PwName(uid) == IF uid = 1 THEN <<97, 110, 110>> ELSE <<98, 111>>
GrName(gid) == IF gid = 1 THEN <<97, 110, 110>> ELSE <<115, 116, 97, 102, 102>>

\* lstat.st_blocks, in units of 512 bytes
StBlocks(node) == IF node \in Links THEN 0 ELSE 8

\* the seconds of a Gregorian year, as in the ls source code
SecondsPerYear == 31556952

\* datetime.now() - lstat.st_mtime in seconds: files are fresh, the rest is old
Age(node) == IF node \in Files THEN 3600 ELSE SecondsPerYear

\* _last_modified_time_str(lstat): "%b %e %H:%M" or "%b %e  %Y"
LastModifiedTimeStr(node) ==
    IF Age(node) < SecondsPerYear \div 2
    THEN <<78, 111, 118, 32, 32, 49, 32, 49, 50, 58, 48, 48>>
    ELSE <<78, 111, 118, 32, 32, 50, 32, 32, 50, 48, 50, 53>>

\* str(p.resolve()): the absolute path of the node p leads to
ResolvedStr(p) ==
    LET Abs(node) == <<Chr.slash, 119>>
                     \o (IF node = Cwd THEN <<>> ELSE <<Chr.slash>> \o Str(node))
    IN Abs(Stat(p).node)

\* _total_num_blocks(paths), of paths whose lstat succeeds
TotalNumBlocks(ps) ==
    SumOf([i \in 1..Len(ps) |-> StBlocks(Lstat(ps[i]).node)]) \div 2

\* _single_row_data_in_list_format(base_path, p), of a p whose lstat succeeds
SingleRowData(base_path, p) ==
    LET Row(node, name) ==
            <<FileMode(node),
              Digits(StNlink(node)),
              PwName(StUid(node)),
              GrName(StUid(node)),
              Digits(st_size[node]),
              LastModifiedTimeStr(node),
              IF node \in Links
              THEN name \o <<Chr.sp, Chr.minus, Chr.gt, Chr.sp>> \o ResolvedStr(p)
              ELSE name>>
    IN Row(Lstat(p).node, PrintablePathName(base_path, p))

\* the exception of calling lstat on each of ps in turn, "" if none fails
RECURSIVE LstatExc(_)
LstatExc(ps) ==
    LET Checked(s) == IF s.err # "" THEN OSErrorOf(s.err) ELSE LstatExc(Tail(ps))
    IN IF ps = <<>> THEN "" ELSE Checked(Lstat(ps[1]))

\* the alignment of column col (1..7) of a row: none for the mode and the
\* name, right for the links and the size, left for the rest
Align(val, w, col) ==
    IF col \in {1, 7} THEN val
    ELSE IF col \in {2, 5} THEN Rjust(val, w)
    ELSE Ljust(val, w)

\* list(_lines_of_single_dir_in_list_format(base_path, paths)): the lines
\* yielded, and the exception after them if any
LinesInListFormat(base_path, ps) ==
    LET Lines(data, col_widths) ==
            [i \in 1..Len(ps) |->
                Join(<<Chr.sp>>, [c \in 1..7 |-> Align(data[i][c], col_widths[c], c)])]
        Widths(data) ==
            [c \in 1..7 |->
                IF c = 7 THEN 0 ELSE MaxOf([i \in 1..Len(ps) |-> Len(data[i][c])])] \o <<>>
        Rows(data) == Lines(data, Widths(data))
        Yielded(statexc) ==
            IF statexc # "" THEN [exc |-> statexc, lines |-> <<>>]
            ELSE [exc |-> "",
                  lines |-> <<(<<116, 111, 116, 97, 108, 32>> \o Digits(TotalNumBlocks(ps)))>>
                            \o Rows([i \in 1..Len(ps) |-> SingleRowData(base_path, ps[i])]
                                    \o <<>>)]
    IN Yielded(LstatExc(ps))

\* list(format_lines_single_dir(base_path)): the paths listed, the lines
\* yielded, and the exception after them if any
FormatLinesSingleDir(base_path, scan) ==
    LET Yielded(ch, fl) == [exc |-> fl.exc, paths |-> ch.paths, lines |-> fl.lines]
        Formatted(ch) ==
            IF ch.exc # "" THEN [exc |-> ch.exc, paths |-> <<>>, lines |-> <<>>]
            ELSE Yielded(ch, IF list_format THEN LinesInListFormat(base_path, ch.paths)
                             ELSE LinesInShortFormat(base_path, ch.paths))
    IN Formatted(IterSingleDirChildren(base_path, scan))

----------------------------------------------------------------------------
(* pathlib.Path.is_dir and is_symlink *)

\* p.is_dir(): stat(p); a missing path or a broken link gives False; a
\* permission error is propagated by Python 3.8 to 3.12 ("other errors (such
\* as permission errors) are propagated") and gives False from 3.13 on
PathIsDir(p) ==
    LET Answer(s) ==
            IF s.err = "EACCES" /\ is_dir_raises
            THEN [exc |-> OSErrorOf(s.err), val |-> FALSE]
            ELSE [exc |-> "", val |-> (s.err = "" /\ s.node \in Dirs)]
    IN Answer(Stat(p))

\* a faulty is_symlink(): no path is taken for a symbolic link
PathIsSymlinkNever(p) == [exc |-> "", val |-> FALSE]

\* p.is_symlink(): lstat(p), with the same treatment of errors
PathIsSymlink(p) ==
    LET Answer(s) ==
            IF s.err = "EACCES" /\ is_dir_raises
            THEN [exc |-> OSErrorOf(s.err), val |-> FALSE]
            ELSE [exc |-> "", val |-> (s.err = "" /\ s.node \in Links)]
    IN Answer(Lstat(p))

----------------------------------------------------------------------------
(* The traversal *)

\* list_multiple_dirs of ls_lines
ListMultipleDirs == Len(paths) > 1 \/ recursive

\* a faulty header: the blank line between two directories is left out
HeaderLineWithoutBlank(base_path) == Str(base_path) \o <<Chr.colon>>

\* the header line of ls_lines for base_path
HeaderLine(base_path) ==
    (IF is_first_dir THEN <<>> ELSE <<Chr.nl>>) \o Str(base_path) \o <<Chr.colon>>

\* the loop of _populate_stack_for_recursive_execution over the sorted
\* children cs: the paths appended to the stack, and the exception that ended
\* the loop if any
RECURSIVE PushChildren(_)
PushChildren(cs) ==
    LET Pushed(c, rest) == [exc |-> rest.exc, pushed |-> <<c>> \o rest.pushed]
        Tested(c, is_dir, is_symlink) ==
            IF is_dir.exc # "" THEN [exc |-> is_dir.exc, pushed |-> <<>>]
            ELSE IF ~is_dir.val THEN PushChildren(Tail(cs))
            ELSE IF is_symlink.exc # "" THEN [exc |-> is_symlink.exc, pushed |-> <<>>]
            ELSE IF is_symlink.val THEN PushChildren(Tail(cs))
            ELSE Pushed(c, PushChildren(Tail(cs)))
    IN IF cs = <<>> THEN [exc |-> "", pushed |-> <<>>]
       ELSE IF IsHiddenPath(cs[1]) THEN PushChildren(Tail(cs))
       ELSE Tested(cs[1], PathIsDir(cs[1]), PathIsSymlink(cs[1]))

\* _populate_stack_for_recursive_execution(base_path, stack): the paths it
\* appends to the stack, in order, or the exception
PopulateStack(base_path, scan) ==
    LET Appended(children, keyexc) ==
            IF keyexc # "" THEN [exc |-> keyexc, pushed |-> <<>>]
            ELSE PushChildren(Sorted(children, TRUE))
        Listed(it) ==
            IF it.exc # "" THEN [exc |-> it.exc, pushed |-> <<>>]
            ELSE Appended(it.children, SortKeyExc(it.children))
        Entered(is_symlink) ==
            IF is_symlink.exc # "" THEN [exc |-> is_symlink.exc, pushed |-> <<>>]
            ELSE IF is_symlink.val THEN [exc |-> "", pushed |-> <<>>]
            ELSE IF IsHiddenPath(base_path) THEN [exc |-> "", pushed |-> <<>>]
            ELSE Listed(IterDir(base_path, scan))
    IN Entered(PathIsSymlink(base_path))

\* a faulty start: the roots are stacked to be popped in the order given
StartInGivenOrder ==
    /\ pc = "start"
    /\ exc' = SortKeyExc(paths)
    /\ IF exc' # ""
       THEN /\ pc' = "raised"
            /\ stack' = <<>>
       ELSE /\ pc' = "loop"
            /\ stack' = LET roots == Reverse(paths)
                        IN [i \in 1..Len(roots) |-> [path |-> roots[i], via |-> 0]]
    /\ UNCHANGED <<is_first_dir, out, visits, exit_code, result, passes>>
    /\ UNCHANGED <<cfgvars, colvars, dirvars>>

\* the first call of next() on ls_lines(): the roots are sorted in reverse
\* onto the stack
Start ==
    /\ pc = "start"
    /\ exc' = SortKeyExc(paths)
    /\ IF exc' # ""
       THEN /\ pc' = "raised"
            /\ stack' = <<>>
       ELSE /\ pc' = "loop"
            /\ stack' = LET roots == Sorted(paths, TRUE)
                        IN [i \in 1..Len(roots) |-> [path |-> roots[i], via |-> 0]]
    /\ UNCHANGED <<is_first_dir, out, visits, exit_code, result, passes>>
    /\ UNCHANGED <<cfgvars, colvars, dirvars>>

\* one pass of the while loop of ls_lines: pop, header, listing, populate
Visit ==
    /\ pc = "loop"
    /\ stack # <<>>
    /\ \E scan \in ScanOrders :
        LET top == Last(stack)
            header == IF ListMultipleDirs THEN <<HeaderLine(top.path)>> ELSE <<>>
            Iterate(fl, pop, raised) ==
                /\ out' = out \o header \o fl.lines
                /\ is_first_dir' = (is_first_dir /\ ~ListMultipleDirs)
                /\ stack' = Front(stack) \o
                            [i \in 1..Len(pop.pushed) |->
                                [path |-> pop.pushed[i], via |-> Len(visits) + 1]]
                /\ visits' = Append(visits,
                               [path |-> top.path, via |-> top.via,
                                header |-> ListMultipleDirs,
                                first |-> Len(out) + 1,
                                listed |-> fl.paths,
                                nlines |-> Len(fl.lines),
                                pushed |-> pop.pushed,
                                exc |-> raised,
                                stage |-> IF fl.exc # "" THEN "format"
                                          ELSE IF pop.exc # "" THEN "populate"
                                          ELSE "done"])
                /\ passes' = passes + 1
                /\ exc' = raised
                /\ pc' = IF raised # "" THEN "raised" ELSE "loop"
            Populate(fl, pop) == Iterate(fl, pop, IF fl.exc # "" THEN fl.exc ELSE pop.exc)
            Format(fl) ==
                Populate(fl, IF fl.exc = "" /\ recursive THEN PopulateStack(top.path, scan)
                             ELSE [exc |-> "", pushed |-> <<>>])
        IN Format(FormatLinesSingleDir(top.path, scan))
    /\ UNCHANGED <<exit_code, result>>
    /\ UNCHANGED <<cfgvars, colvars, dirvars>>

\* a faulty loop end: the empty stack does not end the loop
ExhaustNever ==
    /\ pc = "loop"
    /\ stack = <<>>
    /\ UNCHANGED vars

\* the while loop ends on the empty stack: the generator is exhausted
Exhaust ==
    /\ pc = "loop"
    /\ stack = <<>>
    /\ pc' = "returned"
    /\ UNCHANGED <<stack, is_first_dir, out, visits, exc, exit_code, result, passes>>
    /\ UNCHANGED <<cfgvars, colvars, dirvars>>

\* main: every line was printed, sys.exit(0)
MainExit ==
    /\ caller = "main"
    /\ pc = "returned"
    /\ pc' = "exited"
    /\ exit_code' = 0
    /\ UNCHANGED <<stack, is_first_dir, out, visits, exc, result, passes>>
    /\ UNCHANGED <<cfgvars, colvars, dirvars>>

\* main: the except clauses around the loop over ls_lines()
MainExcept ==
    /\ caller = "main"
    /\ pc = "raised"
    /\ pc' = "exited"
    /\ exit_code' = IF exc \in {"FileNotFoundError", "PermissionError"} THEN 1 ELSE 2
    /\ UNCHANGED <<stack, is_first_dir, out, visits, exc, result, passes>>
    /\ UNCHANGED <<cfgvars, colvars, dirvars>>

\* ls_string: "\n".join(ls_lines()), with a final newline unless empty
LsString ==
    /\ caller = "ls_string"
    /\ pc = "returned"
    /\ pc' = "joined"
    /\ result' = LET joined_lines == Join(<<Chr.nl>>, out)
                 IN IF joined_lines # <<>> THEN joined_lines \o <<Chr.nl>>
                    ELSE joined_lines
    /\ UNCHANGED <<stack, is_first_dir, out, visits, exc, exit_code, passes>>
    /\ UNCHANGED <<cfgvars, colvars, dirvars>>

\* ls_string: an exception of ls_lines() leaves ls_string as well
LsStringRaise ==
    /\ caller = "ls_string"
    /\ pc = "raised"
    /\ pc' = "propagated"
    /\ UNCHANGED <<stack, is_first_dir, out, visits, exc, exit_code, result, passes>>
    /\ UNCHANGED <<cfgvars, colvars, dirvars>>

\* the lists of 1..n requested roots
RECURSIVE RootLists(_)
RootLists(n) ==
    IF n = 0 THEN {<<>>}
    ELSE LET shorter == RootLists(n - 1)
         IN shorter \cup {Append(l, r) : l \in {s \in shorter : Len(s) = n - 1},
                                          r \in RootCands}

\* no column layout was computed
NoLayout == [exc |-> "", info |-> ColumnInfo(0)]

\* the state before ls_lines runs: the configuration as the command line or
\* the test sets it, main switching the column layout on
Init ==
    /\ paths \in (RootLists(MaxRoots) \ {<<>>}) \cup ExtraRootLists
    /\ list_format \in BOOLEAN
    /\ show_all \in BOOLEAN
    /\ sort_by_size \in BOOLEAN
    /\ recursive \in BOOLEAN
    /\ caller \in {"main", "ls_string"}
    /\ use_column_layout = (caller = "main")
    /\ columns = TerminalColumns
    /\ lc_collate \in Locales
    /\ st_size \in {SizeTable(sh) : sh \in 1..MaxSize}
    /\ fault \in Faults
    /\ is_dir_raises \in (IF fault.kind = "nosearch" THEN BOOLEAN ELSE {TRUE})
    /\ pc = "start"
    /\ stack = <<>>
    /\ is_first_dir = TRUE
    /\ out = <<>>
    /\ visits = <<>>
    /\ passes = 0
    /\ exc = ""
    /\ exit_code = -1
    /\ result = <<>>
    /\ path_strings = <<>>
    /\ layout = NoLayout
    /\ rows = <<>>
    /\ entries = <<>>
    /\ listing = <<>>

Next == Start \/ Visit \/ Exhaust \/ MainExit \/ MainExcept \/ LsString \/ LsStringRaise

Spec == Init /\ [][Next]_vars

\* the first call of next() as far as pc shows it: Start is defined for every
\* list of roots (a root whose metadata cannot be read makes it raise), and
\* every Start step is such a step
FirstNext ==
    /\ pc = "start"
    /\ pc' \in {"loop", "raised"}

\* a pass of the while loop as far as the pass counter shows it: Visit is
\* defined whenever the stack is not empty (a failing read ends the pass by
\* raising), so this is when a pass can be taken, and every Visit step is
\* such a step
LoopPass ==
    /\ pc = "loop"
    /\ stack # <<>>
    /\ passes' = passes + 1

\* the program runs on by itself: the caller (the for loop of main, the join
\* of ls_string) resumes the generator until it is exhausted or raises, and
\* then takes its own last step
SpecFair ==
    /\ Spec
    /\ WF_pc(FirstNext)
    /\ WF_passes(LoopPass)
    /\ WF_vars(Exhaust)
    /\ WF_vars(MainExit \/ MainExcept \/ LsString \/ LsStringRaise)

----------------------------------------------------------------------------
(* The column packer on its own: _lines_in_short_format_many_per_line is   *)
(* given a list of names and a terminal width.                             *)

\* the i-th name of a list: lens[i] times the i-th letter
NamesOfLengths(lens) ==
    [i \in 1..Len(lens) |-> [j \in 1..lens[i] |-> 96 + i]]

\* the lists of at most n name lengths
RECURSIVE LengthLists(_)
LengthLists(n) ==
    IF n = 0 THEN {<<>>}
    ELSE LET shorter == LengthLists(n - 1)
         IN shorter \cup {Append(l, k) : l \in {s \in shorter : Len(s) = n - 1},
                                          k \in 1..MaxNameLen}

\* 13 names of length 5 on a terminal of 20 columns
ExampleNames == NamesOfLengths([i \in 1..13 |-> 5])

InitCols ==
    /\ \/ /\ path_strings \in {NamesOfLengths(l) : l \in LengthLists(MaxNames)}
          /\ columns \in 1..MaxColumns
       \/ /\ path_strings = ExampleNames
          /\ columns = 20
    /\ paths = <<>>
    /\ list_format = FALSE
    /\ show_all = FALSE
    /\ sort_by_size = FALSE
    /\ recursive = FALSE
    /\ caller = "packer"
    /\ use_column_layout = TRUE
    /\ lc_collate = "C"
    /\ st_size = SizeTable(1)
    /\ fault = [kind |-> "none", dir |-> Cwd]
    /\ is_dir_raises = TRUE
    /\ pc = "packer"
    /\ stack = <<>>
    /\ is_first_dir = TRUE
    /\ out = <<>>
    /\ visits = <<>>
    /\ passes = 0
    /\ exc = ""
    /\ exit_code = -1
    /\ result = <<>>
    /\ layout = NoLayout
    /\ rows = <<>>
    /\ entries = <<>>
    /\ listing = <<>>

\* layout = _get_optimal_column_layout(path_strings, terminal_size)
Layout ==
    /\ pc = "packer"
    /\ layout' = GetOptimalColumnLayout(path_strings, columns)
    /\ exc' = layout'.exc
    /\ pc' = IF layout'.exc # "" THEN "raised" ELSE "laid"
    /\ UNCHANGED <<stack, is_first_dir, out, visits, exit_code, result, passes>>
    /\ UNCHANGED <<cfgvars, path_strings, rows, dirvars>>

\* the loop over the rows
Render ==
    /\ pc = "laid"
    /\ rows' = RowsOfLayout(path_strings, layout.info)
    /\ pc' = "rendered"
    /\ UNCHANGED <<stack, is_first_dir, out, visits, exc, exit_code, result, passes>>
    /\ UNCHANGED <<cfgvars, path_strings, layout, dirvars>>

NextCols == Layout \/ Render

SpecCols == InitCols /\ [][NextCols]_vars

----------------------------------------------------------------------------
(* The listing of one directory's names on its own: the names come in the  *)
(* order iterdir() hands them out and are listed either by the first       *)
(* version of the program (src/pyls/pyls.py), whose key is the lower-cased *)
(* name without one leading dot, or by the current one, whose key is the   *)
(* locale's collation key.                                                 *)

MaxChildren == 3

\* the names a directory may hold: a, .a, A, foo, .bar
ChildNames ==
    {Nm.a, <<Chr.dot>> \o Nm.a, <<65>>, Nm.foo, <<Chr.dot>> \o Nm.bar}

\* the lists of at most n different names of the set names
RECURSIVE Enumerations(_, _)
Enumerations(names, n) ==
    IF n = 0 THEN {<<>>}
    ELSE LET shorter == Enumerations(names, n - 1)
             Seen(l) == {l[i] : i \in 1..Len(l)}
         IN shorter \cup
            UNION {{Append(l, c) : c \in names \ Seen(l)} :
                       l \in {s \in shorter : Len(s) = n - 1}}

\* _sort_key(path) of src/pyls/pyls.py: path.name.lower() without one
\* leading dot
SortKeyByLowerName(name) ==
    LET Stripped(key) == IF key[1] = Chr.dot THEN Tail(key) ELSE key
    IN Stripped([i \in 1..Len(name) |-> Lower(name[i])])

\* list(_iterate_dir_alphabetically(path)) of src/pyls/pyls.py for a
\* directory whose iterdir() yields children: "." and ".." under show_all,
\* then the children in the stable order of their keys, the dot names left
\* out unless show_all
IterateDirAlphabetically(children) ==
    LET Keyed == [i \in 1..Len(children) |->
                    [key |-> [size |-> 0, name |-> SortKeyByLowerName(children[i])],
                     path |-> children[i]]] \o <<>>
        Paths(sorted) == [i \in 1..Len(sorted) |-> sorted[i].path] \o <<>>
        Shown(name) == show_all \/ name[1] # Chr.dot
    IN (IF show_all THEN <<(<<Chr.dot>>), Nm.up>> ELSE <<>>)
       \o SelectSeq(Paths(SortKeyed(Keyed, FALSE)), Shown)

\* the names listed by _iter_single_dir_children of src/pyls.py, ordered by
\* name, for the directory d when its iterdir() yields children
IterChildrenByName(children) ==
    LET Paths == [i \in 1..Len(children) |-> <<Nm.d, children[i]>>] \o <<>>
        Names(ps) == [i \in 1..Len(ps) |-> PrintablePathName(<<Nm.d>>, ps[i])] \o <<>>
    IN Names((IF show_all THEN <<(<<Nm.d>>), (<<Nm.d, Nm.up>>)>> ELSE <<>>)
             \o SelectSeq(Sorted(Paths, FALSE), NotHiddenPath))

InitNames ==
    /\ entries \in Enumerations(ChildNames, MaxChildren)
    /\ show_all \in BOOLEAN
    /\ lc_collate \in Locales
    /\ paths = <<(<<Nm.d>>)>>
    /\ list_format = FALSE
    /\ sort_by_size = FALSE
    /\ recursive = FALSE
    /\ caller = "ls_string"
    /\ use_column_layout = FALSE
    /\ columns = TerminalColumns
    /\ st_size = SizeTable(1)
    /\ fault = [kind |-> "none", dir |-> Cwd]
    /\ is_dir_raises = TRUE
    /\ pc = "names"
    /\ stack = <<>>
    /\ is_first_dir = TRUE
    /\ out = <<>>
    /\ visits = <<>>
    /\ passes = 0
    /\ exc = ""
    /\ exit_code = -1
    /\ result = <<>>
    /\ path_strings = <<>>
    /\ layout = NoLayout
    /\ rows = <<>>
    /\ listing = <<>>

\* the first version of the program lists the directory
ListByLowerName ==
    /\ pc = "names"
    /\ listing' = IterateDirAlphabetically(entries)
    /\ pc' = "listed_by_lower_name"
    /\ UNCHANGED <<stack, is_first_dir, out, visits, exc, exit_code, result, passes>>
    /\ UNCHANGED <<cfgvars, colvars, entries>>

\* the current version of the program lists the directory
ListByStrXfrm ==
    /\ pc = "names"
    /\ listing' = IterChildrenByName(entries)
    /\ pc' = "listed_by_strxfrm"
    /\ UNCHANGED <<stack, is_first_dir, out, visits, exc, exit_code, result, passes>>
    /\ UNCHANGED <<cfgvars, colvars, entries>>

NextNames == ListByLowerName \/ ListByStrXfrm

SpecNames == InitNames /\ [][NextNames]_vars

----------------------------------------------------------------------------
(* Properties of the traversal (Spec).  visits[i] is the i-th directory    *)
(* popped; its lines are out[FirstLine(i)] .. out[LastLine(i)].            *)

FirstLine(i) == visits[i].first

LastLine(i) == IF i < Len(visits) THEN visits[i + 1].first - 1 ELSE Len(out)

\* the display names of the entries listed for the i-th directory
DisplayNames(i) ==
    [j \in 1..Len(visits[i].listed) |->
        PrintablePathName(visits[i].path, visits[i].listed[j])]

\* the entries of the i-th directory were rendered
WasRendered(i) == visits[i].stage # "format"

\* the i-th directory popped was pushed, directly or not, while the a-th was
\* expanded
RECURSIVE DescendsFrom(_, _)
DescendsFrom(i, a) ==
    /\ i # 0
    /\ \/ visits[i].via = a
       \/ DescendsFrom(visits[i].via, a)

\* how often x occurs in the sequence s
Count(x, s) == Cardinality({i \in 1..Len(s) : s[i] = x})

\* C2: a header "<path>:" is emitted for a listed directory iff more than one
\* root was given or recursive is set; it comes before the directory's entry
\* lines; the first header has no blank line before it and every later header
\* is preceded by exactly one blank line, also after a directory without
\* entry lines.
C2_HeaderRule ==
    LET multi == Len(paths) > 1 \/ recursive
        header(p) == Str(p) \o <<Chr.colon>>
    IN \A i \in 1..Len(visits) :
        LET v == visits[i]
            h == IF multi THEN 1 ELSE 0
        IN /\ LastLine(i) - FirstLine(i) + 1 = h + v.nlines
           /\ multi =>
                /\ out[v.first] = (IF i = 1 THEN <<>> ELSE <<Chr.nl>>) \o header(v.path)
                /\ i > 1 => /\ out[v.first - 1] # <<>>
                            /\ Last(out[v.first - 1]) # Chr.nl
           /\ \A l \in (v.first + h)..LastLine(i) :
                /\ out[l] # <<>>
                /\ out[l][1] # Chr.nl
           /\ (WasRendered(i) /\ ~list_format /\ ~use_column_layout) =>
                SubSeq(out, v.first + h, LastLine(i)) = DisplayNames(i)

\* a later header follows a directory that produced no entry lines
C2_Witness ==
    \E i \in 2..Len(visits) :
        /\ visits[i - 1].exc = ""
        /\ visits[i - 1].nlines = 0
        /\ out[visits[i].first] = <<Chr.nl>> \o Str(visits[i].path) \o <<Chr.colon>>

\* the name-order key as a key of the traversal
NameOrderKey(p) == [size |-> 0, name |-> StrXfrm(Str(p))]

\* the directories are emitted as a pre-order depth-first walk driven by Key
PreOrderBy(Key(_)) ==
    /\ \A i \in 1..Len(visits) :
        LET v == visits[i]
        IN IF v.via = 0 THEN Count(v.path, paths) > 0
           ELSE /\ v.via < i
                /\ Parent(v.path) = visits[v.via].path
                /\ Stat(v.path).node \in Dirs
    /\ \A i, j \in 1..Len(visits) :
        (i < j /\ visits[i].via = visits[j].via) =>
            /\ ~KeyLess(Key(visits[j].path), Key(visits[i].path))
            /\ \A k \in 1..Len(visits) : DescendsFrom(k, i) => (i < k /\ k < j)
    /\ pc = "returned" =>
        \A r \in 1..Len(paths) :
            Count(paths[r], paths)
                = Cardinality({i \in 1..Len(visits) :
                                  visits[i].via = 0 /\ visits[i].path = paths[r]})

\* C3 (as amended): for every configuration the directories are emitted as a
\* pre-order depth-first walk driven by the sort key of the configuration
\* (the name-order key under ByName; under BySize the size, largest first,
\* then the name-order key): the roots in ascending key order whatever order
\* they were given in, a directory before its subdirectories, all descendants
\* of a directory before its next sibling, the child directories of each
\* directory in ascending key order.
C3_PreOrderBySortKey == PreOrderBy(SortKey)

\* C3 (as claimed): the walk is driven by the name-order key under ByName and
\* BySize alike.
C3_PreOrderByNameKey == PreOrderBy(NameOrderKey)

\* under BySize a directory with descendants was emitted before a sibling that
\* the name order puts first
C3_Witness ==
    /\ sort_by_size
    /\ pc = "returned"
    /\ \E i, j, k \in 1..Len(visits) :
        /\ i < k /\ k < j
        /\ visits[i].via # 0
        /\ visits[i].via = visits[j].via
        /\ DescendsFrom(k, i)
        /\ KeyLess(NameOrderKey(visits[j].path), NameOrderKey(visits[i].path))

\* the directory node that the i-th directory popped names
ListedNode(i) == Stat(visits[i].path).node

\* the children of the i-th directory popped, as paths
ChildPaths(i) ==
    {Append(visits[i].path, OnDisk(ListedNode(i))[n]) :
        n \in 1..Len(OnDisk(ListedNode(i)))}

\* those children that are directories, are not symbolic links and are not
\* dot-prefixed unless hidden entries are shown
ChildDirsToPush(i) ==
    {c \in ChildPaths(i) :
        /\ Append(ListedNode(i), Name(c)) \in Dirs
        /\ show_all \/ ~StartsWithDot(Name(c))}

\* C4 (on a file system without permission faults): with recursive set, after
\* any listed directory, a root or a discovered one, has been rendered,
\* exactly its children that are directories, not symbolic links and not
\* dot-prefixed (dot-prefixed too under show_all) are pushed, so that every
\* such directory is listed in the end.
C4_PushesChildDirs ==
    (recursive /\ fault.kind = "none") =>
        \A i \in 1..Len(visits) :
            visits[i].stage = "done" =>
                /\ {visits[i].pushed[n] : n \in 1..Len(visits[i].pushed)}
                       = ChildDirsToPush(i)
                /\ pc = "returned" =>
                       \A c \in ChildDirsToPush(i) :
                           \E j \in 1..Len(visits) :
                               visits[j].via = i /\ visits[j].path = c

\* C5: with show_all false the entries listed for a directory hold no display
\* name starting with '.', neither '.' nor '..', and every child whose name
\* does not start with '.' exactly once; with show_all true every child is
\* held exactly once.
C5_HiddenFiltering ==
    \A i \in 1..Len(visits) :
        WasRendered(i) =>
            LET listed == visits[i].listed
                names == DisplayNames(i)
            IN IF show_all
               THEN \A c \in ChildPaths(i) : Count(c, listed) = 1
               ELSE /\ \A j \in 1..Len(names) : ~StartsWithDot(names[j])
                    /\ \A j \in 1..Len(listed) : listed[j] \in ChildPaths(i)
                    /\ \A c \in ChildPaths(i) :
                        Count(c, listed) = IF StartsWithDot(Name(c)) THEN 0 ELSE 1

\* a directory holding a dot-prefixed child was listed with show_all false
C5_Witness ==
    /\ ~show_all
    /\ \E i \in 1..Len(visits) :
        /\ WasRendered(i)
        /\ visits[i].listed # <<>>
        /\ \E c \in ChildPaths(i) : StartsWithDot(Name(c))

\* C6: with show_all true each listing holds exactly one '.' and one '..';
\* under ByName they are its first and second entries; under BySize they are
\* sorted with the children by the BySize key, '.' with the size of the
\* listed directory itself and '..' with the size of its parent.
C6_PseudoEntries ==
    \A i \in 1..Len(visits) :
        (show_all /\ WasRendered(i)) =>
            LET listed == visits[i].listed
                names == DisplayNames(i)
                size(j) == IF names[j] = <<Chr.dot>> THEN st_size[ListedNode(i)]
                           ELSE IF names[j] = Nm.up
                                THEN st_size[Parent(ListedNode(i))]
                           ELSE StSize(listed[j])
                key(j) == [size |-> 0 - size(j), name |-> StrXfrm(Str(listed[j]))]
            IN /\ Count(<<Chr.dot>>, names) = 1
               /\ Count(Nm.up, names) = 1
               /\ IF sort_by_size
                  THEN \A j \in 1..(Len(listed) - 1) : ~KeyLess(key(j + 1), key(j))
                  ELSE names[1] = <<Chr.dot>> /\ names[2] = Nm.up

\* C7: under BySize the entries of a directory are listed by non-increasing
\* size, entries of equal size in ascending name-key order; a.txt (2 bytes),
\* b.txt (3 bytes), c.txt (1 byte) are listed b.txt, a.txt, c.txt.
C7_SizeOrder ==
    \A i \in 1..Len(visits) :
        (sort_by_size /\ WasRendered(i)) =>
            LET listed == visits[i].listed
            IN /\ \A j, k \in 1..Len(listed) :
                    j < k =>
                        /\ StSize(listed[j]) >= StSize(listed[k])
                        /\ StSize(listed[j]) = StSize(listed[k]) =>
                               ~SeqLess(StrXfrm(Str(listed[k])),
                                        StrXfrm(Str(listed[j])))
               /\ (~show_all /\ visits[i].path = <<Nm.d, Nm.m>>) =>
                    DisplayNames(i) = <<Nm.btxt, Nm.atxt, Nm.ctxt>>

\* under BySize a directory with entries of equal size and the directory of
\* a.txt, b.txt, c.txt were listed
C7_Witness ==
    /\ sort_by_size
    /\ ~show_all
    /\ \E i, j \in 1..Len(visits) :
        /\ WasRendered(i) /\ WasRendered(j)
        /\ visits[i].path = <<Nm.d>>
        /\ visits[j].path = <<Nm.d, Nm.m>>
        /\ Len(visits[j].listed) = 3

\* reading the children of the i-th directory popped, or the metadata of its
\* entries that the rendering needs, fails
ListingFails(i) ==
    \/ Stat(visits[i].path).err # ""
    \/ ListedNode(i) \notin Dirs
    \/ fault.kind = "noread" /\ fault.dir = ListedNode(i)
    \/ /\ fault.kind = "nosearch" /\ fault.dir = ListedNode(i)
       /\ sort_by_size \/ list_format

\* the metadata of a requested root that the sort of the roots needs cannot
\* be read
RootSortFails == sort_by_size /\ \E r \in 1..Len(paths) : Lstat(paths[r]).err # ""

\* a failure is not caught: it leaves ls_lines, nothing is emitted after it,
\* the directory it arose in is the last one popped
FailurePropagates ==
    /\ RootSortFails /\ pc # "start" => exc # "" /\ visits = <<>>
    /\ \A i \in 1..Len(visits) : ListingFails(i) => visits[i].exc # ""
    /\ exc # "" =>
        /\ pc \in {"raised", "exited", "propagated"}
        /\ pc = "exited" => exit_code \in {1, 2}
        /\ result = <<>>
        /\ IF visits = <<>> THEN out = <<>>
           ELSE /\ Last(visits).exc = exc
                /\ \A i \in 1..(Len(visits) - 1) : visits[i].exc = ""
                /\ LET h == IF Len(paths) > 1 \/ recursive THEN 1 ELSE 0
                   IN Len(out) = Last(visits).first - 1 + h + Last(visits).nlines

\* C10 (as amended): if reading the children or the metadata of a directory
\* reached by the traversal fails, the failure propagates out of ls_lines to
\* its caller instead of being caught and no line is emitted after it, none
\* for any directory pending on the stack; no entry line of the failing
\* directory is emitted and no sibling of a failing entry is listed when the
\* failure arises while the entries are collected or rendered; only when the
\* entries need no metadata (short format, ByName) and is_dir() fails on a
\* child in the recursive step were the entry lines of the directory, those
\* of the failing entry and its siblings, emitted before the failure.
C10_FailureAborts ==
    /\ FailurePropagates
    /\ \A i \in 1..Len(visits) :
        (visits[i].exc # "" /\ visits[i].nlines > 0) =>
            /\ ~ListingFails(i)
            /\ recursive /\ ~list_format /\ ~sort_by_size
            /\ fault.kind = "nosearch" /\ fault.dir = ListedNode(i)
            /\ is_dir_raises
            /\ exc = "PermissionError"

\* C10 (as claimed): whenever such a read fails no entry line of the failing
\* directory is emitted and no sibling of a failing entry is listed.
C10_NoEntryLineOnFailure ==
    /\ FailurePropagates
    /\ \A i \in 1..Len(visits) : visits[i].exc # "" => visits[i].nlines = 0

\* a failure left ls_lines while directories were pending, once after the
\* entries of the failing directory were emitted
C10_Witness ==
    /\ exc # ""
    /\ pc \in {"exited", "propagated"}
    /\ stack # <<>>
    /\ visits # <<>>
    /\ Last(visits).nlines > 0

\* the directory a path names; a path that cannot be resolved names itself
RootDir(p) == IF Stat(p).err = "" THEN Stat(p).node ELSE p

\* directory a lies below directory b
Below(a, b) == Len(a) > Len(b) /\ SubSeq(a, 1, Len(b)) = b

\* the roots name pairwise different directories and, with recursive set,
\* none of them lies below another
RootsDisjoint ==
    \A i, j \in 1..Len(paths) :
        i # j =>
            /\ RootDir(paths[i]) # RootDir(paths[j])
            /\ recursive => ~Below(RootDir(paths[i]), RootDir(paths[j]))

\* no directory was popped twice
NoDirectoryTwice ==
    \A i, j \in 1..Len(visits) :
        i < j => RootDir(visits[i].path) # RootDir(visits[j].path)

\* C11 (as amended): for any list of root paths that name pairwise different
\* directories, none of them, when recursive is set, below another, no
\* directory is popped from the stack and emitted more than once.
C11_NoDirectoryTwice == RootsDisjoint => NoDirectoryTwice

\* C11 (as claimed): for any list of root paths, also one that names the same
\* directory twice or names a directory and one of its descendants with
\* recursive set, no directory is popped from the stack and emitted more than
\* once.
C11_NoDirectoryTwiceAnyRoots == NoDirectoryTwice

\* a recursive run over disjoint roots, one of them the directory that holds
\* a symbolic link to itself, has popped its last directory
C11_Witness ==
    /\ RootsDisjoint
    /\ recursive
    /\ Len(paths) > 1
    /\ pc = "returned"
    /\ \E i \in 1..Len(visits) :
        /\ visits[i].path = <<Nm.d>>
        /\ visits[i].pushed # <<>>
        /\ \E c \in ChildPaths(i) : Append(ListedNode(i), Name(c)) \in Links

\* the lines of the output that open with a blank line
BlankLines == {i \in 1..Len(out) : out[i] # <<>> /\ out[i][1] = Chr.nl}

\* the roots foo and bar, given in that order, were listed non-recursively
\* without hidden entries
ListedFooBar ==
    /\ paths = <<(<<Nm.foo>>), (<<Nm.bar>>)>>
    /\ ~recursive
    /\ ~show_all
    /\ pc = "returned"

RECURSIVE OrdersOf(_)
OrdersOf(names) ==
    IF names = {} THEN {<<>>}
    ELSE UNION {{<<c>> \o l : l \in OrdersOf(names \ {c})} : c \in names}

EnumerationOrders == OrdersOf({entries[i] : i \in 1..Len(entries)})

\* name a is listed before name b
ListedBefore(a, b) ==
    \E i, j \in 1..Len(listing) : i < j /\ listing[i] = a /\ listing[j] = b

\* C13: the ByName ordering makes the listing deterministic: for any set of
\* children of a directory the listed sequence is the same for every order
\* in which the children are enumerated, both with the locale collation key
\* and with the fallback key (the lower-cased name without one leading '.'),
\* under which '.bar' is listed before 'foo'.
C13_ListingDeterministic ==
    /\ pc = "listed_by_strxfrm" =>
        \A other \in EnumerationOrders : IterChildrenByName(other) = listing
    /\ pc = "listed_by_lower_name" =>
        /\ \A other \in EnumerationOrders : IterateDirAlphabetically(other) = listing
        /\ \A i, j \in 1..Len(listing) :
            (listing[i] = <<Chr.dot>> \o Nm.bar /\ listing[j] = Nm.foo) => i < j

\* the part of C13 that holds: the listing by the locale collation key does
\* not depend on the order of enumeration, and the fallback key lists '.bar'
\* before 'foo'
C13_ByStrXfrmDeterministic ==
    /\ pc = "listed_by_strxfrm" =>
        \A other \in EnumerationOrders : IterChildrenByName(other) = listing
    /\ pc = "listed_by_lower_name" =>
        ~ListedBefore(Nm.foo, <<Chr.dot>> \o Nm.bar)

\* the 7 fields of the long-format row of p as C14 states them: the group
\* name is that of the group the entry's group id identifies
RowAsClaimed(base_path, p) ==
    LET Row(node, name) ==
            <<FileMode(node),
              Digits(StNlink(node)),
              PwName(StUid(node)),
              GrName(StGid(node)),
              Digits(st_size[node]),
              LastModifiedTimeStr(node),
              IF node \in Links
              THEN name \o <<Chr.sp, Chr.minus, Chr.gt, Chr.sp>> \o ResolvedStr(p)
              ELSE name>>
    IN Row(Lstat(p).node, PrintablePathName(base_path, p))

\* the lines of the rows data, every column but the last as wide as its
\* widest field
AlignedRows(data) ==
    LET Width(c) == IF c = 7 THEN 0 ELSE MaxOf([i \in 1..Len(data) |-> Len(data[i][c])])
    IN [i \in 1..Len(data) |->
           Join(<<Chr.sp>>, [c \in 1..7 |-> Align(data[i][c], Width(c), c)])]

\* the entry lines emitted for the i-th directory in the long format: those
\* after its header, if any, and its total line
EntryLines(i) ==
    SubSeq(out, FirstLine(i) + (IF visits[i].header THEN 1 ELSE 0) + 1, LastLine(i))

\* C14: for every entry, the long-format row consists, in this order, of the
\* entry's mode string, link count, owner name (the name of the user
\* identified by the entry's owner id), group name (the name of the group
\* identified by the entry's group id), size in bytes, mtime string and
\* display name, where the display name of a symlink is followed by " -> "
\* and the resolved target path.
C14_LongFormatRow ==
    list_format =>
        \A i \in 1..Len(visits) :
            WasRendered(i) =>
                EntryLines(i) =
                    AlignedRows([j \in 1..Len(visits[i].listed) |->
                                    RowAsClaimed(visits[i].path, visits[i].listed[j])])

\* the rows as the code builds them: the group column holds the name of the
\* group whose id equals the entry's owner id
C14_RowsAsBuilt ==
    list_format =>
        \A i \in 1..Len(visits) :
            WasRendered(i) =>
                EntryLines(i) =
                    AlignedRows([j \in 1..Len(visits[i].listed) |->
                                    SingleRowData(visits[i].path, visits[i].listed[j])])

\* the while loop of ls_lines is over
LoopStopped == pc \notin {"start", "loop"}

\* C15 (as amended): for any finite directory tree, including trees whose
\* symbolic links form cycles, any finite list of roots and any
\* configuration, the traversal loop of ls_lines eventually stops after
\* emitting finitely many lines: on an empty stack, or with the failure of
\* a read, which leaves the directories still on the stack unlisted.
C15_LoopStops ==
    /\ <>LoopStopped
    /\ [](LoopStopped => (stack = <<>> \/ exc # ""))

\* C15 (as claimed, here only for file systems without permission faults):
\* for any list of roots and any configuration the traversal loop of
\* ls_lines eventually reaches an empty stack and stops.
C15_ReachesEmptyStack ==
    fault.kind = "none" => <>(LoopStopped /\ stack = <<>>)

\* a recursive run that listed the symbolic link d/L, which leads back to
\* the directory d that holds it, has ended on the empty stack
C15_Witness ==
    /\ recursive
    /\ pc = "returned"
    /\ stack = <<>>
    /\ \E i \in 1..Len(visits) :
        \E j \in 1..Len(visits[i].listed) :
            /\ Lstat(visits[i].listed[j]).node \in Links
            /\ Stat(visits[i].listed[j]).node = ListedNode(i)

----------------------------------------------------------------------------
(* Properties of the column packer (SpecCols) *)

\* rows = ceil(N / c)
RowsFor(n, c) == (n + c - 1) \div c

\* the width of the (0-based) column k when names is laid out column-major in
\* c columns: the largest name length + 2 among the names placed in it
ColumnWidth(names, c, k) ==
    MaxOf([i \in 1..Len(names) |->
              IF (i - 1) \div RowsFor(Len(names), c) = k
              THEN Len(names[i]) + 2 ELSE 0])

\* the column widths of c columns sum to less than width
Feasible(names, c, width) ==
    SumOf([k \in 1..c |-> ColumnWidth(names, c, k - 1)]) < width

\* the largest feasible count among 1..max(1, width div 3), 1 if there is none
LargestFeasible(names, width) ==
    LET feasible == {c \in 1..Max(1, width \div 3) : Feasible(names, c, width)}
    IN IF feasible = {} THEN 1
       ELSE CHOOSE c \in feasible : \A o \in feasible : o <= c

\* C8: for every list of names and every terminal width W >= 1 the column
\* count chosen is the largest c in 1..max(1, W div 3), both ends included,
\* whose column widths sum to less than W, and 1 when there is none; 13 names
\* of length 5 at W = 20 give 2 columns and 7 rows.
C8_ColumnCount ==
    /\ pc # "raised"
    /\ pc \in {"laid", "rendered"} =>
        layout.info.num_cols = LargestFeasible(path_strings, columns)
    /\ (pc = "rendered" /\ path_strings = ExampleNames /\ columns = 20) =>
        layout.info.num_cols = 2 /\ Len(rows) = 7

\* the rows of names in num_cols columns of the widths col_array, the last
\* name of each row left unpadded
RowsLastUnpadded(names, num_cols, col_array) ==
    LET num_rows == RowsFor(Len(names), num_cols)
        cells(r) == ((Len(names) - r) \div num_rows) + 1
    IN [r \in 1..num_rows |->
           Concat([c \in 1..cells(r) |->
                      IF c < cells(r)
                      THEN Ljust(names[r + (c - 1) * num_rows], col_array[c])
                      ELSE names[r + (c - 1) * num_rows]])]

\* C9: in column layout row r is the concatenation, in column order, of the
\* names at r, r + rows, r + 2*rows, ...; every name but the last of its row
\* is padded to its column's width, the last name of each row is not padded;
\* no names give no rows.
C9_RowsLastUnpadded ==
    pc = "rendered" =>
        rows = RowsLastUnpadded(path_strings, layout.info.num_cols,
                                layout.info.col_array)

====
